---- MODULE Spec2Model ----
(***************************************************************************)
(* CUP STACK EX: the game component App of src/src/App.tsx as a state      *)
(* machine.  Lanes are sequences of cups, position 1 = bottom (the code's  *)
(* index 0), the last position = top.  Lane numbers are the code's 0..3.   *)
(* Every handler is one atomic action followed by the forced-loss effect   *)
(* that React runs after the render the handler causes.  Timers created by *)
(* proceedToDrop all have the same delay and so fire in creation order;    *)
(* each carries the nextDropLane its closure captured.                     *)
(***************************************************************************)
EXTENDS Integers, Sequences, FiniteSets, TLC

LANE_COUNT == 4
MAX_STACK_HEIGHT == 6

\* Bounds of the exploration.
MaxTurn == 3
MaxTimers == 2
FreeTurns == 5

Lanes == 0 .. (LANE_COUNT - 1)
NoLane == -1          \* null lane (selectedLane === null, exclude === null)
NoMsg == "none"       \* null message (detectForcedLoss returned null)
\* A message is modelled by the template it is built from; the lane numbers
\* and sizes interpolated into some templates are left out (the messages of
\* rejected moves are constant strings in the code).
NoId == 0             \* spawnedId undefined

\* The state of App, the timers proceedToDrop has set, and play: which
\* recorded play the inputs of the game follow (0: none, the inputs are free).
VARIABLES lanes, nextDropLane, selectedLane, gameState, isDropping, turn,
          message, idRef, timers, play

vars == <<lanes, nextDropLane, selectedLane, gameState, isDropping, turn,
          message, idRef, timers, play>>

\* ---------------------------------------------------------------- helpers
Top(lane) == lane[Len(lane)]
ButLast(lane) == SubSeq(lane, 1, Len(lane) - 1)

Cup(i, s, l) == [id |-> i, size |-> s, linked |-> l]

RECURSIVE WalkDown(_, _)
WalkDown(stack, idx) ==
  IF idx > 1 /\ stack[idx].linked THEN WalkDown(stack, idx - 1) ELSE idx

\* Mutant of getMovingGroupStartIndex: only the top cup moves.
getMovingGroupStartIndex_topOnly(stack) == Len(stack)

\* Position (1-based) of the base of the moving group; 0 for an empty stack
\* (the code's -1).
getMovingGroupStartIndex(stack) ==
  IF Len(stack) = 0 THEN 0 ELSE WalkDown(stack, Len(stack))

\* The lanes pickNextLane can return.
pickNextLane(exclude) == {lane \in Lanes : lane # exclude}

\* Mutant of IsWinWindow: the size-5 cup has to be linked as well.
IsWinWindow_baseLinked(lane, i) ==
  /\ lane[i].size = 5 /\ lane[i + 1].size = 4 /\ lane[i + 2].size = 3
  /\ lane[i + 3].size = 2 /\ lane[i + 4].size = 1
  /\ lane[i].linked /\ lane[i + 1].linked /\ lane[i + 2].linked
  /\ lane[i + 3].linked /\ lane[i + 4].linked

IsWinWindow(lane, i) ==
  /\ lane[i].size = 5 /\ lane[i + 1].size = 4 /\ lane[i + 2].size = 3
  /\ lane[i + 3].size = 2 /\ lane[i + 4].size = 1
  /\ lane[i + 1].linked /\ lane[i + 2].linked
  /\ lane[i + 3].linked /\ lane[i + 4].linked

checkWin(ls) ==
  \E k \in Lanes :
    /\ Len(ls[k]) >= 5
    /\ \E i \in 1 .. (Len(ls[k]) - 4) : IsWinWindow(ls[k], i)

\* Mutant of detectForcedLoss: only the height is tested.
detectForcedLoss_heightOnly(ls, nextLane) ==
  IF nextLane \notin Lanes THEN NoMsg
  ELSE IF Len(ls[nextLane]) >= MAX_STACK_HEIGHT THEN "forced: no room"
  ELSE NoMsg

detectForcedLoss(ls, nextLane) ==
  IF nextLane \notin Lanes THEN NoMsg
  ELSE IF Len(ls[nextLane]) >= MAX_STACK_HEIGHT THEN "forced: no room"
  ELSE IF Len(ls[nextLane]) > 0 /\ Top(ls[nextLane]).linked
          /\ Top(ls[nextLane]).size = 1 THEN "forced: locked 1 on top"
  ELSE NoMsg

\* Mutant of nextId: the counter is not advanced.
nextId_noIncrement(id) == id

\* nextId: the value of idRef.current after the call that returned id.
nextId(id) == id + 1

\* Mutant of droppedCup: the new size-1 cup is linked on any top.
droppedCup_alwaysLinked(dropTop, id) == Cup(id, 1, TRUE)

\* The size-1 cup a drop pushes on the top cup dropTop.
droppedCup(dropTop, id) == Cup(id, 1, dropTop.size = 2)

\* Mutant of dropMergedCup: the new size-2 cup is never linked.
dropMergedCup_unlinked(rest, id) == Cup(id, 2, FALSE)

\* The size-2 cup a drop makes of itself and an unlocked size-1 top; rest is
\* the lane without that top.
dropMergedCup(rest, id) ==
  Cup(id, 2, IF Len(rest) > 0 THEN Top(rest).size - 2 = 1 ELSE FALSE)

\* Mutant of laneFull: the comparison is strict.
laneFull_strict(lane) == Len(lane) > MAX_STACK_HEIGHT

\* applyDropToLanes' test for a lane that cannot take the drop.
laneFull(lane) == Len(lane) >= MAX_STACK_HEIGHT

\* applyDropToLanes with createId = nextId: id is the value of idRef before
\* the call; the result carries the value of idRef after it.
applyDropToLanes(ls, laneIndex, id) ==
  LET lane == ls[laneIndex] IN
  IF laneFull(lane) THEN
    [lanes |-> ls, lost |-> TRUE, message |-> "drop: over height",
     spawnedId |-> NoId, idRef |-> id]
  ELSE IF Len(lane) = 0 THEN
    [lanes |-> [ls EXCEPT ![laneIndex] = <<Cup(id, 1, FALSE)>>],
     lost |-> FALSE, message |-> "drop: 1 landed",
     spawnedId |-> id, idRef |-> nextId(id)]
  ELSE LET dropTop == Top(lane) IN
    IF dropTop.linked THEN
      IF dropTop.size = 1 THEN
        [lanes |-> ls, lost |-> TRUE, message |-> "drop: locked 1",
         spawnedId |-> NoId, idRef |-> id]
      ELSE
        LET pushed == Append(lane, droppedCup(dropTop, id)) IN
        [lanes |-> [ls EXCEPT ![laneIndex] = pushed],
         lost |-> Len(pushed) > MAX_STACK_HEIGHT,
         message |-> "drop: 1 nested", spawnedId |-> id,
         idRef |-> nextId(id)]
    ELSE IF dropTop.size = 1 THEN
      LET rest == ButLast(lane)
          newCup == dropMergedCup(rest, id)
          pushed == Append(rest, newCup) IN
      [lanes |-> [ls EXCEPT ![laneIndex] = pushed],
       lost |-> Len(pushed) > MAX_STACK_HEIGHT,
       message |-> "drop: 1+1 merged", spawnedId |-> id,
       idRef |-> nextId(id)]
    ELSE
      LET pushed == Append(lane, droppedCup(dropTop, id)) IN
      [lanes |-> [ls EXCEPT ![laneIndex] = pushed],
       lost |-> Len(pushed) > MAX_STACK_HEIGHT,
       message |-> "drop: 1 nested", spawnedId |-> id,
       idRef |-> nextId(id)]

\* ------------------------------------------------------------------ state
Init ==
  /\ lanes = [k \in Lanes |-> <<>>]
  /\ nextDropLane = 0
  /\ selectedLane = NoLane
  /\ gameState = "start"
  /\ isDropping = FALSE
  /\ turn = 1
  /\ message = "tap to start"
  /\ idRef = 1
  /\ timers = <<>>
  /\ play = 0

\* The state a handler leaves, followed by the forced-loss effect
\* (useEffect on [lanes, nextDropLane, gameState]).
Commit(l, n, s, g, d, m) ==
  LET forced == detectForcedLoss(l, n) IN
  /\ lanes' = l
  /\ nextDropLane' = n
  /\ IF g = "playing" /\ forced # NoMsg
       THEN /\ gameState' = "lost"
            /\ message' = forced
            /\ isDropping' = FALSE
            /\ selectedLane' = NoLane
       ELSE /\ gameState' = g
            /\ message' = m
            /\ isDropping' = d
            /\ selectedLane' = s

\* Mutant of initGame: only the first seeding drop is made.
initGame_oneSeed(firstLane, secondLane, upcoming) ==
  /\ firstLane \in pickNextLane(NoLane)
  /\ secondLane \in pickNextLane(NoLane)
  /\ upcoming \in pickNextLane(secondLane)
  /\ LET empty == [k \in Lanes |-> <<>>]
         first == applyDropToLanes(empty, firstLane, 1) IN
     /\ idRef' = first.idRef
     /\ turn' = 1
     /\ Commit(first.lanes, upcoming, NoLane, "playing", FALSE,
               "game start")
     /\ UNCHANGED timers

\* initGame with the three lanes pickNextLane drew.
initGame(firstLane, secondLane, upcoming) ==
  /\ firstLane \in pickNextLane(NoLane)
  /\ secondLane \in pickNextLane(NoLane)
  /\ upcoming \in pickNextLane(secondLane)
  /\ LET empty == [k \in Lanes |-> <<>>]
         first == applyDropToLanes(empty, firstLane, 1)
         second == applyDropToLanes(first.lanes, secondLane, first.idRef) IN
     /\ idRef' = second.idRef
     /\ turn' = 1
     /\ Commit(second.lanes, upcoming, NoLane, "playing", FALSE,
               "game start")
     /\ UNCHANGED timers

\* useEffect(() => { initGame(); }, []): once, when the component mounts.
mountGame(firstLane, secondLane, upcoming) ==
  /\ gameState = "start"
  /\ initGame(firstLane, secondLane, upcoming)

\* The reset button (onClick={initGame}), at any time after the mount.
resetGame(firstLane, secondLane, upcoming) ==
  /\ gameState # "start"
  /\ initGame(firstLane, secondLane, upcoming)

\* Mutant of relinked: links on "smaller than" instead of "one smaller".
relinked_anySmaller(cup, belowCup) ==
  [cup EXCEPT !.linked = (belowCup.size - cup.size >= 1)]

\* Mutant of relinked: the cup keeps the linked flag it had.
relinked_kept(cup, belowCup) == cup

\* handleMove's rebuilt cup: linked recomputed against the cup now below.
relinked(cup, belowCup) ==
  [cup EXCEPT !.linked = (belowCup.size - cup.size = 1)]

\* Mutant of chained: a group of several cups is not recognised.
chained_never(movingGroup) == FALSE

\* handleMove's test for a chained group (more than one cup moves).
chained(movingGroup) == Len(movingGroup) > 1

\* Mutant of sizeFive: the largest size is taken to be 6.
sizeFive_six(baseCup) == baseCup.size = 6

\* handleMove's test for the largest cup, which cannot merge.
sizeFive(baseCup) == baseCup.size = 5

\* Mutant of mergedCup: linked is computed from the size before the merge.
mergedCup_staleSize(newTarget, baseCup, id) ==
  Cup(id, baseCup.size + 1,
      IF Len(newTarget) > 0 THEN Top(newTarget).size - baseCup.size = 1
      ELSE FALSE)

\* Mutant of mergedCup: the merged cup keeps the size of the two cups.
mergedCup_sameSize(newTarget, baseCup, id) ==
  Cup(id, baseCup.size,
      IF Len(newTarget) > 0 THEN Top(newTarget).size - baseCup.size = 1
      ELSE FALSE)

\* The cup a merge move makes of baseCup and the target's top; newTarget is
\* the target without that top.
mergedCup(newTarget, baseCup, id) ==
  LET mergedSize == baseCup.size + 1 IN
  Cup(id, mergedSize,
      IF Len(newTarget) > 0 THEN Top(newTarget).size - mergedSize = 1
      ELSE FALSE)

\* The part of handleMove that decides the move: the lanes it would set, the
\* message, whether it goes on to proceedToDrop (accepted), and idRef after.
resolveMove(ls, from, to, id) ==
  LET source == ls[from]
      target == ls[to] IN
  IF Len(source) = 0 THEN
    [accepted |-> FALSE, lanes |-> ls, message |-> "move: empty source",
     idRef |-> id]
  ELSE
    LET startIndex == getMovingGroupStartIndex(source)
        movingGroup == SubSeq(source, startIndex, Len(source))
        baseCup == movingGroup[1]
        newSource == SubSeq(source, 1, startIndex - 1) IN
    IF Len(target) = 0 THEN
      [accepted |-> TRUE,
       lanes |-> [ls EXCEPT ![from] = newSource, ![to] = target \o movingGroup],
       message |-> "move: moved", idRef |-> id]
    ELSE
      LET targetTop == Top(target) IN
      IF baseCup.size > targetTop.size THEN
        [accepted |-> FALSE, lanes |-> ls, message |-> "move: big on small",
         idRef |-> id]
      ELSE IF baseCup.size < targetTop.size THEN
        LET rebuiltGroup ==
              [idx \in 1 .. Len(movingGroup) |->
                 LET belowCup == IF idx = 1 THEN targetTop
                                 ELSE movingGroup[idx - 1] IN
                 relinked(movingGroup[idx], belowCup)] IN
        [accepted |-> TRUE,
         lanes |-> [ls EXCEPT ![from] = newSource,
                              ![to] = target \o rebuiltGroup],
         message |-> "move: moved and relinked", idRef |-> id]
      ELSE IF chained(movingGroup) THEN
        [accepted |-> FALSE, lanes |-> ls, message |-> "move: chained group",
         idRef |-> id]
      ELSE IF sizeFive(baseCup) THEN
        [accepted |-> FALSE, lanes |-> ls, message |-> "move: size 5",
         idRef |-> id]
      ELSE
        LET newTarget == ButLast(target)
            merged == mergedCup(newTarget, baseCup, id) IN
        [accepted |-> TRUE,
         lanes |-> [ls EXCEPT ![from] = newSource,
                              ![to] = Append(newTarget, merged)],
         message |-> "move: merged", idRef |-> nextId(id)]

\* Guard of handleLaneClick: clicks are ignored otherwise.
ClickEnabled == gameState = "playing" /\ ~isDropping

\* Exploration bound: a turn is started only below MaxTurn and with fewer
\* than MaxTimers timers in flight.
MaySchedule == turn < MaxTurn /\ Len(timers) < MaxTimers

\* handleLaneClick, first tap: choose the source lane.
selectLane(index) ==
  /\ ClickEnabled
  /\ selectedLane = NoLane
  /\ IF Len(lanes[index]) = 0
       THEN Commit(lanes, nextDropLane, selectedLane, gameState, isDropping,
                   "select: empty lane")
       ELSE Commit(lanes, nextDropLane, index, gameState, isDropping,
                   "select: selected")
  /\ UNCHANGED <<turn, idRef, timers>>

\* handleLaneClick, second tap on the selected lane: skip, proceedToDrop.
skipTurn(index) ==
  /\ ClickEnabled
  /\ selectedLane = index
  /\ timers' = Append(timers, nextDropLane)
  /\ Commit(lanes, nextDropLane, NoLane, gameState, TRUE, "skip")
  /\ UNCHANGED <<turn, idRef>>

\* Mutant of handleMove: a rejected move goes on to proceedToDrop as well.
handleMove_dropsOnReject(from, to) ==
  /\ ClickEnabled
  /\ selectedLane = from
  /\ from # to
  /\ LET r == resolveMove(lanes, from, to, idRef) IN
     /\ idRef' = r.idRef
     /\ timers' = Append(timers, nextDropLane)
     /\ Commit(r.lanes, nextDropLane, NoLane, gameState, TRUE, r.message)
  /\ UNCHANGED turn

\* handleLaneClick, second tap on another lane: handleMove(selectedLane, index).
handleMove(from, to) ==
  /\ ClickEnabled
  /\ selectedLane = from
  /\ from # to
  /\ LET r == resolveMove(lanes, from, to, idRef) IN
     IF r.accepted
       THEN /\ idRef' = r.idRef
            /\ timers' = Append(timers, nextDropLane)
            /\ Commit(r.lanes, nextDropLane, NoLane, gameState, TRUE,
                      r.message)
       ELSE /\ Commit(lanes, nextDropLane, NoLane, gameState, isDropping,
                      r.message)
            /\ UNCHANGED <<idRef, timers>>
  /\ UNCHANGED turn

\* Mutant of dropTimer: the win is tested before the loss of the drop.
dropTimer_winFirst(upcoming) ==
  /\ timers # <<>>
  /\ LET dropLane == Head(timers)
         dropResult == applyDropToLanes(lanes, dropLane, idRef) IN
     /\ timers' = Tail(timers)
     /\ idRef' = dropResult.idRef
     /\ IF checkWin(dropResult.lanes) THEN
          /\ Commit(dropResult.lanes, nextDropLane, selectedLane, "won",
                    FALSE, "won")
          /\ UNCHANGED turn
        ELSE IF dropResult.lost THEN
          /\ Commit(dropResult.lanes, nextDropLane, selectedLane, "lost",
                    FALSE, dropResult.message)
          /\ UNCHANGED turn
        ELSE
          /\ upcoming \in pickNextLane(dropLane)
          /\ turn' = turn + 1
          /\ Commit(dropResult.lanes, upcoming, selectedLane, gameState,
                    FALSE, dropResult.message)

\* The callback of the oldest timer set by proceedToDrop; dropLane is the
\* nextDropLane its closure captured, upcoming the lane pickNextLane draws
\* when the game goes on.
dropTimer(upcoming) ==
  /\ timers # <<>>
  /\ LET dropLane == Head(timers)
         dropResult == applyDropToLanes(lanes, dropLane, idRef) IN
     /\ timers' = Tail(timers)
     /\ idRef' = dropResult.idRef
     /\ IF dropResult.lost THEN
          /\ Commit(dropResult.lanes, nextDropLane, selectedLane, "lost",
                    FALSE, dropResult.message)
          /\ UNCHANGED turn
        ELSE IF checkWin(dropResult.lanes) THEN
          /\ Commit(dropResult.lanes, nextDropLane, selectedLane, "won",
                    FALSE, "won")
          /\ UNCHANGED turn
        ELSE
          /\ upcoming \in pickNextLane(dropLane)
          /\ turn' = turn + 1
          /\ Commit(dropResult.lanes, upcoming, selectedLane, gameState,
                    FALSE, dropResult.message)

\* A second tap that goes on to proceedToDrop.
Schedules(index) ==
  \/ selectedLane = index
  \/ /\ selectedLane \in Lanes
     /\ resolveMove(lanes, selectedLane, index, idRef).accepted

Next ==
  \/ \E f \in Lanes, s \in Lanes, u \in Lanes :
       mountGame(f, s, u) /\ UNCHANGED play
  \/ \E f \in Lanes, s \in Lanes, u \in Lanes :
       resetGame(f, s, u) /\ UNCHANGED play
  \/ \E index \in Lanes : selectLane(index) /\ UNCHANGED play
  \/ \E index \in Lanes : MaySchedule /\ skipTurn(index) /\ UNCHANGED play
  \/ \E from \in Lanes, to \in Lanes :
       /\ Schedules(to) => MaySchedule
       /\ handleMove(from, to)
       /\ UNCHANGED play
  \/ \E u \in Lanes : dropTimer(u) /\ UNCHANGED play

\* Every interleaving of taps, resets and timers, for the first MaxTurn turns.
Spec == Init /\ [][Next]_vars

\* ------------------------------------------------------- recorded plays
\* Single games without the reset button: free for the first FreeTurns
\* turns, or following one of five recorded plays that go deeper: one stacks
\* a lane, one builds 5-4-3-2-1 by a move, one makes two cups of size 5, one
\* has the drop fall on a full lane, one builds 5-4-3-2-1 by the drop.  Entry t of a
\* play is the move of turn t that goes on to the drop (<<>> for a skip) and
\* the lane pickNextLane draws in the drop that ends turn t; every play
\* starts from the draws Seed of initGame.  Taps that select a lane and moves
\* that are rejected stay free.  The last entry of FiveScript is the move of
\* a size-5 cup onto a size-5 cup, which handleMove rejects.
Seed == <<0, 0, 1>>

StackScript ==
  << [move |-> <<>>, next |-> 0],
     [move |-> <<>>, next |-> 1],
     [move |-> <<1, 0>>, next |-> 0],
     [move |-> <<>>, next |-> 1],
     [move |-> <<1, 0>>, next |-> 0],
     [move |-> <<>>, next |-> 1],
     [move |-> <<1, 0>>, next |-> 0],
     [move |-> <<>>, next |-> 1],
     [move |-> <<1, 0>>, next |-> 0],
     [move |-> <<>>, next |-> 1],
     [move |-> <<1, 0>>, next |-> 2],
     [move |-> <<1, 0>>, next |-> 1] >>

TowerScript ==
  << [move |-> <<>>, next |-> 0],
     [move |-> <<>>, next |-> 1],
     [move |-> <<>>, next |-> 2],
     [move |-> <<>>, next |-> 1],
     [move |-> <<>>, next |-> 2],
     [move |-> <<2, 0>>, next |-> 0],
     [move |-> <<>>, next |-> 2],
     [move |-> <<0, 3>>, next |-> 0],
     [move |-> <<0, 2>>, next |-> 2],
     [move |-> <<>>, next |-> 0],
     [move |-> <<>>, next |-> 2],
     [move |-> <<>>, next |-> 0],
     [move |-> <<0, 2>>, next |-> 2],
     [move |-> <<>>, next |-> 0],
     [move |-> <<>>, next |-> 2],
     [move |-> <<2, 1>>, next |-> 0],
     [move |-> <<0, 1>>, next |-> 1],
     [move |-> <<>>, next |-> 0],
     [move |-> <<1, 3>>, next |-> 2],
     [move |-> <<0, 3>>, next |-> 0],
     [move |-> <<1, 3>>, next |-> 3],
     [move |-> <<1, 2>>, next |-> 0],
     [move |-> <<2, 1>>, next |-> 3],
     [move |-> <<2, 1>>, next |-> 1],
     [move |-> <<3, 0>>, next |-> 0],
     [move |-> <<0, 2>>, next |-> 1],
     [move |-> <<3, 2>>, next |-> 0],
     [move |-> <<3, 1>>, next |-> 1],
     [move |-> <<0, 1>>, next |-> 2],
     [move |-> <<1, 2>>, next |-> 0] >>

FiveScript ==
  << [move |-> <<>>, next |-> 0],
     [move |-> <<>>, next |-> 1],
     [move |-> <<>>, next |-> 2],
     [move |-> <<>>, next |-> 1],
     [move |-> <<>>, next |-> 2],
     [move |-> <<2, 0>>, next |-> 3],
     [move |-> <<2, 1>>, next |-> 0],
     [move |-> <<0, 1>>, next |-> 1],
     [move |-> <<3, 0>>, next |-> 2],
     [move |-> <<1, 2>>, next |-> 0],
     [move |-> <<0, 2>>, next |-> 1],
     [move |-> <<2, 1>>, next |-> 2],
     [move |-> <<1, 0>>, next |-> 1],
     [move |-> <<2, 1>>, next |-> 2],
     [move |-> <<0, 1>>, next |-> 3],
     [move |-> <<2, 3>>, next |-> 0],
     [move |-> <<0, 3>>, next |-> 1],
     [move |-> <<3, 1>>, next |-> 0],
     [move |-> <<1, 2>>, next |-> 2],
     [move |-> <<1, 3>>, next |-> 0],
     [move |-> <<0, 2>>, next |-> 1],
     [move |-> <<1, 3>>, next |-> 0],
     [move |-> <<0, 1>>, next |-> 2],
     [move |-> <<0, 2>>, next |-> 0],
     [move |-> <<1, 2>>, next |-> 3],
     [move |-> <<0, 3>>, next |-> 0],
     [move |-> <<1, 3>>, next |-> 1],
     [move |-> <<0, 1>>, next |-> 0],
     [move |-> <<2, 3>>, next |-> 3],
     [move |-> <<0, 3>>, next |-> 0],
     [move |-> <<3, 1>>, next |-> 1],
     [move |-> <<1, 2>>, next |-> 0],
     [move |-> <<2, 3>>, next |-> 1],
     [move |-> <<3, 2>>, next |-> 0],
     [move |-> <<3, 2>>, next |-> 1] >>

\* The stacking play up to a lane of five cups, then a move onto that lane
\* while it is the drop lane.
HeightScript ==
  SubSeq(StackScript, 1, 9) \o << [move |-> <<1, 0>>, next |-> 1] >>

\* The tower play up to turn 28, then the tower is finished by the drop.
WinScript ==
  SubSeq(TowerScript, 1, 28) \o << [move |-> <<1, 2>>, next |-> 2],
                                   [move |-> <<0, 2>>, next |-> 0] >>

Scripts == <<StackScript, TowerScript, FiveScript, HeightScript, WinScript>>

\* The player may take turn `turn` with the accepted move mv.
MayPlay(mv) ==
  IF play = 0 THEN turn < FreeTurns
  ELSE turn <= Len(Scripts[play]) /\ Scripts[play][turn].move = mv

\* pickNextLane may draw u in the drop that ends turn `turn`.
MayDraw(u) ==
  IF play = 0 THEN TRUE
  ELSE turn <= Len(Scripts[play]) /\ Scripts[play][turn].next = u

PlayNext ==
  \/ \E f \in Lanes, s \in Lanes, u \in Lanes :
       mountGame(f, s, u) /\ play' = 0
  \/ \E p \in 1 .. Len(Scripts) :
       mountGame(Seed[1], Seed[2], Seed[3]) /\ play' = p
  \/ \E index \in Lanes : selectLane(index) /\ UNCHANGED play
  \/ \E index \in Lanes : MayPlay(<<>>) /\ skipTurn(index) /\ UNCHANGED play
  \/ \E from \in Lanes, to \in Lanes :
       /\ Schedules(to) => MayPlay(<<from, to>>)
       /\ handleMove(from, to)
       /\ UNCHANGED play
  \/ \E u \in Lanes : MayDraw(u) /\ dropTimer(u) /\ UNCHANGED play

SpecPlay == Init /\ [][PlayNext]_vars

\* ----------------------------------------------------------------- claims
Terminal == gameState \in {"won", "lost"}

RejectMsgs == {"move: empty source", "move: big on small",
               "move: chained group", "move: size 5"}

\* This step is handleMove(selectedLane, to) accepting the move.
MoveStep(to) ==
  /\ ClickEnabled
  /\ selectedLane \in Lanes
  /\ to # selectedLane
  /\ resolveMove(lanes, selectedLane, to, idRef).accepted
  /\ lanes' = resolveMove(lanes, selectedLane, to, idRef).lanes
  /\ selectedLane' = NoLane
  /\ Len(timers') = Len(timers) + 1

\* This step is handleMove rejecting a move from the selected lane.
RejectStep ==
  /\ selectedLane \in Lanes
  /\ selectedLane' = NoLane
  /\ message' \in RejectMsgs

\* The base of from's moving group and the top of to have the same size, and
\* one of the two is linked.
LockedMergeAttempt(ls, from, to) ==
  /\ from \in Lanes /\ to \in Lanes /\ from # to
  /\ Len(ls[from]) > 0 /\ Len(ls[to]) > 0
  /\ LET base == ls[from][getMovingGroupStartIndex(ls[from])] IN
     /\ base.size = Top(ls[to]).size
     /\ (Top(ls[to]).linked \/ base.linked)

\* The drop on lane n is lost after a skip and after every accepted move.
Unavoidable(ls, n) ==
  /\ applyDropToLanes(ls, n, idRef).lost
  /\ \A from \in Lanes, to \in Lanes :
       from # to =>
         LET r == resolveMove(ls, from, to, idRef) IN
         r.accepted => applyDropToLanes(r.lanes, n, r.idRef).lost

\* C1: while the game is playing, every lane holds at most 6 cups.
C1_HeightInvariant ==
  gameState = "playing" =>
    \A k \in Lanes : Len(lanes[k]) <= MAX_STACK_HEIGHT

\* C2: detectForcedLoss reports a forced loss exactly when the skip and every
\* accepted move followed by the drop on that lane are lost.
C2_ForcedLossIffUnavoidable ==
  \A n \in Lanes :
    (detectForcedLoss(lanes, n) # NoMsg) <=> Unavoidable(lanes, n)

\* C3: a move of a base cup onto a top cup of the same size is never accepted
\* when one of the two cups is linked.
C3_LockedNeverMerged ==
  [][\A to \in Lanes :
       LockedMergeAttempt(lanes, selectedLane, to) => ~MoveStep(to)]_vars

\* C4: no cup rests directly on a smaller cup.
C4_NoLargerOnSmaller ==
  \A k \in Lanes : \A i \in 2 .. Len(lanes[k]) :
    lanes[k][i].size <= lanes[k][i - 1].size

\* C5: every linked cup has a cup directly below it that is exactly one size
\* larger.
C5_LinkedValid ==
  \A k \in Lanes : \A i \in 1 .. Len(lanes[k]) :
    lanes[k][i].linked =>
      i > 1 /\ lanes[k][i - 1].size - lanes[k][i].size = 1

\* C5 witness: a move has just put a group on a larger cup and relinked it,
\* and a lane ends in a chain of two linked cups.
C5_Witness ==
  /\ message = "move: moved and relinked"
  /\ \E k \in Lanes :
       /\ Len(lanes[k]) >= 3
       /\ Top(lanes[k]).linked
       /\ lanes[k][Len(lanes[k]) - 1].linked

\* C6: a rejected move changes neither the lanes, the next drop lane, the
\* turn, the game state nor the pending drops, and the same move issued again
\* on the resulting board is rejected with the same message.
C6_RejectedMoveNoEffect ==
  [][RejectStep =>
       /\ lanes' = lanes
       /\ nextDropLane' = nextDropLane
       /\ turn' = turn
       /\ gameState' = gameState
       /\ isDropping' = isDropping
       /\ timers' = timers
       /\ idRef' = idRef
       /\ \E to \in Lanes \ {selectedLane} :
            LET r == resolveMove(lanes', selectedLane, to, idRef') IN
            ~r.accepted /\ r.lanes = lanes' /\ r.message = message']_vars

\* C6 witness: a move of a size-5 cup onto a size-5 cup has just been
\* rejected.
C6_Witness ==
  /\ message = "move: size 5"
  /\ selectedLane = NoLane
  /\ gameState = "playing"

\* C7: an accepted move that yields a winning board puts the game in the won
\* state.
C7_WinBeforeDrop ==
  [][\A to \in Lanes :
       (MoveStep(to) /\ checkWin(lanes')) => gameState' = "won"]_vars

\* C8: while a drop is pending no further drop is scheduled.
C8_TurnsSerialized ==
  [][timers # <<>> => Len(timers') <= Len(timers)]_vars

\* C9: in a terminal state only initGame changes the lanes, the next drop
\* lane, the turn or the game state.
C9_TerminalAbsorbing ==
  [][(Terminal /\ message' # "game start") =>
       /\ lanes' = lanes
       /\ nextDropLane' = nextDropLane
       /\ turn' = turn
       /\ gameState' = gameState]_vars

\* C10: a drop is scheduled only when none is pending, and it is applied to
\* the lane that is the next drop lane when it is applied.
C10_DropFollowsTurn ==
  [][/\ Len(timers') > Len(timers) => timers = <<>>
     /\ Len(timers') < Len(timers) => Head(timers) = nextDropLane]_vars

\* The messages of a drop that landed.
LandedMsgs == {"drop: 1 landed", "drop: 1 nested", "drop: 1+1 merged"}

\* This step is initGame (from mountGame or the reset button).
InitStep == message' = "game start"

\* This step is the timer callback.
DropStep == Len(timers') < Len(timers)

\* C11: pickNextLane(exclude) is a lane other than exclude; the two seeding
\* drops of initGame land in different lanes and the lane it announces is
\* not the lane of the second; a drop draws a next lane other than its own;
\* and a drop that directly follows a drop does not land in the same lane.
C11_DropLaneNeverRepeats ==
  [][/\ \A e \in Lanes \cup {NoLane} :
          pickNextLane(e) \subseteq Lanes \ {e} /\ pickNextLane(e) # {}
     /\ InitStep =>
          /\ Cardinality({k \in Lanes : lanes'[k] # <<>>}) = 2
          /\ \A k \in Lanes :
               (lanes'[k] # <<>> /\ Top(lanes'[k]).id = 2) => nextDropLane' # k
     /\ (DropStep /\ message' \in LandedMsgs) => nextDropLane' # Head(timers)
     /\ (DropStep /\ message \in LandedMsgs /\ lanes[Head(timers)] # <<>>) =>
          Top(lanes[Head(timers)]).id # idRef - 1]_vars

\* The number of cups in lanes 0 .. k of the board ls.
RECURSIVE CupCount(_, _)
CupCount(ls, k) == IF k < 0 THEN 0 ELSE Len(ls[k]) + CupCount(ls, k - 1)

\* The ids of the cups on the board ls.
BoardIds(ls) ==
  UNION {{ls[k][i].id : i \in 1 .. Len(ls[k])} : k \in Lanes}

\* C12: an accepted move onto a top cup of the size s of the moved base
\* removes the top cup of the source and the top cup of the destination and
\* puts one new cup of size s+1 on the destination, linked iff the cup now
\* below it has size s+2; all other cups are unchanged and the board holds
\* one cup less.
C12_MergeEffect ==
  [][\A to \in Lanes :
       (/\ MoveStep(to)
        /\ lanes[to] # <<>>
        /\ Top(lanes[to]).size =
             lanes[selectedLane][getMovingGroupStartIndex(lanes[selectedLane])].size)
       => LET from == selectedLane
              s == Top(lanes[from]).size
              n == Len(lanes[to])
              new == Top(lanes'[to]) IN
          /\ s < 5
          /\ Top(lanes[to]).size = s
          /\ lanes'[from] = ButLast(lanes[from])
          /\ Len(lanes'[to]) = n
          /\ ButLast(lanes'[to]) = ButLast(lanes[to])
          /\ new.size = s + 1
          /\ new.linked <=> (n >= 2 /\ lanes[to][n - 1].size = s + 2)
          /\ new.id \notin BoardIds(lanes)
          /\ \A k \in Lanes \ {from, to} : lanes'[k] = lanes[k]
          /\ CupCount(lanes', LANE_COUNT - 1)
               = CupCount(lanes, LANE_COUNT - 1) - 1]_vars

\* C12 witness: a merge move has just made a cup that is linked to the cup
\* below it.
C12_Witness ==
  /\ message = "move: merged"
  /\ isDropping
  /\ \E k \in Lanes :
       /\ Len(lanes[k]) >= 2
       /\ Top(lanes[k]).id = idRef - 1
       /\ Top(lanes[k]).linked
       /\ lanes[k][Len(lanes[k]) - 1].size = Top(lanes[k]).size + 1

\* C13: every cup on the board has a size in 1 .. 5.
C13_SizesInRange ==
  \A k \in Lanes : \A i \in 1 .. Len(lanes[k]) : lanes[k][i].size \in 1 .. 5

\* C13 witness: two lanes end in a size-5 cup and the move of one onto the
\* other has just been rejected.
C13_Witness ==
  /\ message = "move: size 5"
  /\ \E a \in Lanes, b \in Lanes :
       /\ a # b
       /\ lanes[a] # <<>> /\ Top(lanes[a]).size = 5 /\ ~Top(lanes[a]).linked
       /\ lanes[b] # <<>> /\ Top(lanes[b]).size = 5

\* The lane holds, somewhere, five consecutive cups of sizes 5, 4, 3, 2, 1
\* (bottom to top) of which the upper four are linked.
HasTower(lane) ==
  \E i \in 1 .. Len(lane) :
    /\ i + 4 <= Len(lane)
    /\ [j \in 1 .. 5 |-> lane[i + j - 1].size] = <<5, 4, 3, 2, 1>>
    /\ \A j \in 2 .. 5 : lane[i + j - 1].linked

\* The board with every cup changed by f.
MapCups(ls, f(_)) ==
  [k \in Lanes |-> [i \in 1 .. Len(ls[k]) |-> f(ls[k][i])]]

NoIdCup(cup) == [cup EXCEPT !.id = NoId]
BaseLinkedCup(cup) == IF cup.size = 5 THEN [cup EXCEPT !.linked = TRUE] ELSE cup
UnlinkedFourCup(cup) ==
  IF cup.size = 4 THEN [cup EXCEPT !.linked = FALSE] ELSE cup

\* The board with one more cup at the bottom of every lane that holds cups.
Raised(ls) ==
  [k \in Lanes |-> IF ls[k] = <<>> THEN <<>>
                   ELSE <<Cup(NoId, 5, FALSE)>> \o ls[k]]

\* C14: checkWin holds exactly of the boards with a lane that holds
\* 5, 4, 3, 2, 1 with the upper four linked; this is so of the board itself
\* and of the board without ids, with every size-5 cup linked, with a cup
\* put beneath every lane, and with every size-4 cup unlinked; the first
\* three of these do not change the result.
C14_CheckWinIffTower ==
  LET boards == {lanes, MapCups(lanes, NoIdCup),
                 MapCups(lanes, BaseLinkedCup), Raised(lanes),
                 MapCups(lanes, UnlinkedFourCup)} IN
  /\ \A b \in boards : checkWin(b) <=> \E k \in Lanes : HasTower(b[k])
  /\ checkWin(MapCups(lanes, NoIdCup)) = checkWin(lanes)
  /\ checkWin(MapCups(lanes, BaseLinkedCup)) = checkWin(lanes)
  /\ checkWin(lanes) => checkWin(Raised(lanes))
  /\ ~checkWin(MapCups(lanes, UnlinkedFourCup))

\* C14 witness: a move has just completed 5, 4, 3, 2, 1 in a lane.
C14_Witness ==
  /\ message \in {"move: moved and relinked", "forced: locked 1 on top"}
  /\ \E k \in Lanes : HasTower(lanes[k]) /\ ~lanes[k][1].linked
  /\ checkWin(lanes)

\* Lane n of the board ls holds 6 or more cups, or its top cup is a linked
\* size-1 cup.
LosingLane(ls, n) ==
  \/ Len(ls[n]) >= 6
  \/ Len(ls[n]) > 0 /\ Top(ls[n]).linked /\ Top(ls[n]).size = 1

\* C15: on every board the game reaches, a drop on a lane with 6 or more
\* cups or with a linked size-1 top is lost, spawns no cup and returns the
\* lanes as they were; the timer callback that makes such a drop leaves the
\* lanes and the id counter alone and ends the game as lost.
C15_LosingDropNoEffect ==
  [][/\ \A n \in Lanes :
          LosingLane(lanes', n) =>
            LET r == applyDropToLanes(lanes', n, idRef') IN
            r.lost /\ r.spawnedId = NoId /\ r.lanes = lanes'
     /\ (DropStep /\ LosingLane(lanes, Head(timers))) =>
          lanes' = lanes /\ idRef' = idRef /\ gameState' = "lost"]_vars

\* C15 witness: the timer has just made a drop on a lane that holds 6 cups,
\* and the game is lost.
C15_Witness ==
  /\ message = "drop: over height"
  /\ gameState = "lost"
  /\ timers = <<>>
  /\ \E n \in Lanes : Len(lanes[n]) = 6

\* Lane n of the board ls holds fewer than 6 cups and its top cup is an
\* unlinked size-1 cup.
UnlockedOneLane(ls, n) ==
  /\ Len(ls[n]) < 6 /\ Len(ls[n]) > 0
  /\ Top(ls[n]).size = 1 /\ ~Top(ls[n]).linked

\* On lane n, after is before with its top cup replaced by a size-2 cup that
\* is linked iff the cup below it has size 3; the other lanes are the same.
TopReplacedByTwo(before, after, n) ==
  LET len == Len(before[n]) IN
  /\ Len(after[n]) = len
  /\ ButLast(after[n]) = ButLast(before[n])
  /\ Top(after[n]).size = 2
  /\ Top(after[n]).linked <=> (len >= 2 /\ before[n][len - 1].size = 3)
  /\ \A k \in Lanes \ {n} : after[k] = before[k]

\* C16: on every board the game reaches, a drop on a lane of fewer than 6
\* cups with an unlinked size-1 top is not lost and replaces that top by a
\* size-2 cup, linked iff the cup below has size 3, all else unchanged; the
\* timer callback that makes such a drop sets the lanes so.
C16_DropOnUnlockedOne ==
  [][/\ \A n \in Lanes :
          UnlockedOneLane(lanes', n) =>
            LET r == applyDropToLanes(lanes', n, idRef') IN
            ~r.lost /\ TopReplacedByTwo(lanes', r.lanes, n)
     /\ (DropStep /\ UnlockedOneLane(lanes, Head(timers))) =>
          TopReplacedByTwo(lanes, lanes', Head(timers))]_vars

\* C16 witness: the timer has just merged its drop with a size-1 cup that
\* lay on a size-3 cup, and the new size-2 cup is linked.
C16_Witness ==
  /\ message = "drop: 1+1 merged"
  /\ \E k \in Lanes :
       /\ Len(lanes[k]) >= 2
       /\ Top(lanes[k]).id = idRef - 1
       /\ Top(lanes[k]).size = 2 /\ Top(lanes[k]).linked
       /\ lanes[k][Len(lanes[k]) - 1].size = 3

\* Lane n of the board ls holds fewer than 6 cups and is empty or has a top
\* cup of size 2 .. 5.
PushLane(ls, n) ==
  /\ Len(ls[n]) < 6
  /\ Len(ls[n]) = 0 \/ Top(ls[n]).size \in 2 .. 5

\* On lane n, after is before with one size-1 cup on top that is linked iff
\* the top of before has size 2; the other lanes are the same.
OnePushed(before, after, n) ==
  /\ Len(after[n]) = Len(before[n]) + 1
  /\ ButLast(after[n]) = before[n]
  /\ Top(after[n]).size = 1
  /\ Top(after[n]).linked <=> (before[n] # <<>> /\ Top(before[n]).size = 2)
  /\ \A k \in Lanes \ {n} : after[k] = before[k]

\* C17: on every board the game reaches, a drop on a lane of fewer than 6
\* cups that is empty or has a top cup of size 2 .. 5 puts one size-1 cup on
\* that lane, linked iff the previous top has size 2, all else unchanged;
\* the timer callback that makes such a drop sets the lanes so.
C17_DropPushesOne ==
  [][/\ \A n \in Lanes :
          PushLane(lanes', n) =>
            OnePushed(lanes', applyDropToLanes(lanes', n, idRef').lanes, n)
     /\ (DropStep /\ PushLane(lanes, Head(timers))) =>
          OnePushed(lanes, lanes', Head(timers))]_vars

\* C17 witness: the timer has just put a size-1 cup on a linked size-2 cup
\* and linked it.
C17_Witness ==
  /\ message = "drop: 1 nested"
  /\ \E k \in Lanes :
       /\ Len(lanes[k]) >= 3
       /\ Top(lanes[k]).id = idRef - 1
       /\ Top(lanes[k]).size = 1 /\ Top(lanes[k]).linked
       /\ lanes[k][Len(lanes[k]) - 1].size = 2
       /\ lanes[k][Len(lanes[k]) - 1].linked

\* C18: the ids of the cups on the board are pairwise distinct and were all
\* issued by the counter since the last initGame; between two initGames the
\* counter never goes back, and a cup that appears on the board carries an
\* id the counter had not issued before the step.
C18_IdsUnique ==
  [][LET ids == BoardIds(lanes') IN
     /\ Cardinality(ids) = CupCount(lanes', LANE_COUNT - 1)
     /\ \A i \in ids : 1 <= i /\ i < idRef'
     /\ ~InitStep =>
          /\ idRef' >= idRef
          /\ \A i \in ids \ BoardIds(lanes) : i >= idRef]_vars

\* C18 witness: a drop has just landed on a board of three cups, and some id
\* issued in this game is no longer on the board.
C18_Witness ==
  /\ message \in LandedMsgs
  /\ turn > 1
  /\ CupCount(lanes, LANE_COUNT - 1) >= 3
  /\ (1 .. (idRef - 1)) \ BoardIds(lanes) # {}

\* The top cup of lane from is linked (more than one cup moves) and the base
\* of the run of linked cups has the size of the top cup of lane to.
ChainedMergeAttempt(ls, from, to) ==
  /\ from \in Lanes /\ to \in Lanes /\ from # to
  /\ Len(ls[from]) > 1 /\ Len(ls[to]) > 0
  /\ Top(ls[from]).linked
  /\ \E g \in 1 .. (Len(ls[from]) - 1) :
       /\ \A i \in (g + 1) .. Len(ls[from]) : ls[from][i].linked
       /\ g = 1 \/ ~ls[from][g].linked
       /\ ls[from][g].size = Top(ls[to]).size

\* C19: the move of a group of more than one cup onto a top cup of the size
\* of the group's base is decided as rejected with the lanes as they were,
\* and no step is that move accepted; the step that rejects it changes
\* neither the lanes nor the pending drops.
C19_ChainedGroupRejected ==
  [][/\ \A to \in Lanes :
          ChainedMergeAttempt(lanes, selectedLane, to) =>
            LET r == resolveMove(lanes, selectedLane, to, idRef) IN
            /\ ~r.accepted /\ r.lanes = lanes /\ r.idRef = idRef
            /\ ~MoveStep(to)
     /\ (RejectStep /\ message' = "move: chained group") =>
          /\ \E to \in Lanes : ChainedMergeAttempt(lanes, selectedLane, to)
          /\ lanes' = lanes /\ timers' = timers /\ turn' = turn
          /\ isDropping' = isDropping]_vars

\* C19 witness: the move of a chained group onto a cup of its base's size has
\* just been rejected, and no drop is pending.
C19_Witness ==
  /\ message = "move: chained group"
  /\ timers = <<>>
  /\ ~isDropping
  /\ \E from \in Lanes, to \in Lanes : ChainedMergeAttempt(lanes, from, to)

\* Position g is the base of the moving group of the lane: every cup above it
\* is linked, and it is the bottom cup or is not linked itself.
IsGroupBase(lane, g) ==
  /\ \A i \in (g + 1) .. Len(lane) : lane[i].linked
  /\ g = 1 \/ ~lane[g].linked

\* C20: an accepted move onto an empty lane or onto a top cup larger than the
\* group's base takes the moving group off the source and puts it on the
\* destination in the same order with the same ids and sizes, and with the
\* same linked flags when the destination was empty; the rest of the source,
\* the cups of the destination and the other lanes are unchanged.
C20_MoveTransfersGroup ==
  [][\A to \in Lanes : \A g \in 1 .. (MAX_STACK_HEIGHT + 1) :
       (/\ MoveStep(to)
        /\ g <= Len(lanes[selectedLane])
        /\ IsGroupBase(lanes[selectedLane], g)
        /\ \/ lanes[to] = <<>>
           \/ lanes[selectedLane][g].size < Top(lanes[to]).size)
       => LET from == selectedLane
              src == lanes[from]
              tgt == lanes[to]
              count == Len(src) - g + 1 IN
          /\ lanes'[from] = SubSeq(src, 1, g - 1)
          /\ Len(lanes'[to]) = Len(tgt) + count
          /\ SubSeq(lanes'[to], 1, Len(tgt)) = tgt
          /\ \A j \in 1 .. count :
               LET old == src[g + j - 1]
                   new == lanes'[to][Len(tgt) + j] IN
               /\ new.id = old.id /\ new.size = old.size
               /\ tgt = <<>> => new.linked = old.linked
          /\ \A k \in Lanes \ {from, to} : lanes'[k] = lanes[k]]_vars

\* C20 witness: the group of a cup and the linked cup on it has just been
\* moved to an empty lane, and it is all the board holds.
C20_Witness ==
  /\ message = "move: moved"
  /\ isDropping
  /\ \E k \in Lanes :
       /\ Len(lanes[k]) = 2
       /\ ~lanes[k][1].linked /\ lanes[k][2].linked
       /\ \A n \in Lanes \ {k} : lanes[n] = <<>>

\* The board ls holds two unlinked size-1 cups in two different lanes, or one
\* unlinked size-2 cup, and nothing else.
SeededBoard(ls) ==
  \/ \E a \in Lanes, b \in Lanes :
       /\ a # b
       /\ Len(ls[a]) = 1 /\ ls[a][1].size = 1 /\ ~ls[a][1].linked
       /\ Len(ls[b]) = 1 /\ ls[b][1].size = 1 /\ ~ls[b][1].linked
       /\ \A k \in Lanes \ {a, b} : ls[k] = <<>>
  \/ \E a \in Lanes :
       /\ Len(ls[a]) = 1 /\ ls[a][1].size = 2 /\ ~ls[a][1].linked
       /\ \A k \in Lanes \ {a} : ls[k] = <<>>

\* C21: the step that starts a game (the first step, and every step that
\* announces the game start) leaves a board of two seeding drops, the game
\* playing in turn 1, no lane selected and no drop in progress.
C21_GameStart ==
  [][(gameState = "start" \/ InitStep) =>
       /\ SeededBoard(lanes')
       /\ gameState' = "playing"
       /\ turn' = 1
       /\ selectedLane' = NoLane
       /\ ~isDropping']_vars

\* C21 witness: a game has just started with both seeding drops in one lane.
C21_Witness ==
  /\ message = "game start"
  /\ gameState = "playing"
  /\ \E a \in Lanes : Len(lanes[a]) = 1 /\ lanes[a][1].size = 2

\* C22: the linked flag of every cup tells whether the cup has a cup directly
\* below it that is exactly one size larger.
C22_LinkedComplete ==
  \A k \in Lanes : \A i \in 1 .. Len(lanes[k]) :
    lanes[k][i].linked <=>
      (i > 1 /\ lanes[k][i - 1].size - lanes[k][i].size = 1)

\* C22 witness: a move has just put an unlinked cup on a cup one size larger
\* in a lane of two cups, and the moved cup is linked now.
C22_Witness ==
  /\ message = "move: moved and relinked"
  /\ isDropping
  /\ \E k \in Lanes :
       /\ Len(lanes[k]) = 2
       /\ lanes[k][2].linked
       /\ lanes[k][1].size - lanes[k][2].size = 1
       /\ lanes[k][2].id < lanes[k][1].id

RECURSIVE Pow2(_)
Pow2(n) == IF n = 0 THEN 1 ELSE 2 * Pow2(n - 1)

\* The sum of 2^(size-1) over the cups lane[1 .. i].
RECURSIVE LaneWeight(_, _)
LaneWeight(lane, i) ==
  IF i = 0 THEN 0 ELSE Pow2(lane[i].size - 1) + LaneWeight(lane, i - 1)

\* The sum of 2^(size-1) over the cups of lanes 0 .. k of the board ls.
RECURSIVE Weight(_, _)
Weight(ls, k) ==
  IF k < 0 THEN 0 ELSE LaneWeight(ls[k], Len(ls[k])) + Weight(ls, k - 1)

\* C24: an accepted move keeps the sum of 2^(size-1) over all cups, a drop
\* that is not lost adds exactly 1 to it, and whenever the game is playing
\* the sum is turn + 1.
C24_WeightConserved ==
  [][/\ \A to \in Lanes :
          MoveStep(to) =>
            Weight(lanes', LANE_COUNT - 1) = Weight(lanes, LANE_COUNT - 1)
     /\ (DropStep /\ ~applyDropToLanes(lanes, Head(timers), idRef).lost) =>
          Weight(lanes', LANE_COUNT - 1) = Weight(lanes, LANE_COUNT - 1) + 1
     /\ gameState' = "playing" =>
          Weight(lanes', LANE_COUNT - 1) = turn' + 1]_vars

\* C24 witness: a merge move has just made a cup of size 4 or 5 in turn 20
\* or later, and the game is playing.
C24_Witness ==
  /\ message = "move: merged"
  /\ gameState = "playing"
  /\ turn >= 20
  /\ \E k \in Lanes :
       /\ lanes[k] # <<>>
       /\ Top(lanes[k]).id = idRef - 1
       /\ Top(lanes[k]).size >= 4

\* C25: whenever the game is won the board satisfies checkWin, and the game
\* becomes won only in the timer callback, by a drop that is not lost and
\* whose lanes become the board.
C25_WonJustified ==
  [][/\ gameState' = "won" => checkWin(lanes')
     /\ (gameState # "won" /\ gameState' = "won") =>
          /\ DropStep
          /\ LET r == applyDropToLanes(lanes, Head(timers), idRef) IN
             ~r.lost /\ lanes' = r.lanes]_vars

\* C25 witness: the drop has just finished 5-4-3-2-1 and the game is won.
C25_Witness ==
  /\ gameState = "won"
  /\ message = "won"
  /\ timers = <<>>
  /\ \E k \in Lanes : Len(lanes[k]) = 5 /\ Top(lanes[k]).id = idRef - 1
====
